---- MODULE Spec2Model ----
(***************************************************************************)
(* A model of the neural-network framework: the Dropout layer              *)
(* (src/layers/dropout.py) driven call by call, and the Model              *)
(* (src/model.py): construction, predict and fit.                          *)
(*                                                                         *)
(* Numbers held in arrays are exact rationals <<numerator, denominator>>;  *)
(* an array is a record [shape, data] whose data maps every index tuple of *)
(* the shape to a value.                                                   *)
(***************************************************************************)
EXTENDS Integers, Sequences, FiniteSets

(* ------------------------------ bounds -------------------------------- *)

\* largest rank (number of dimensions) of an array handed to the layer
MaxRank == 3
\* largest size of one dimension
MaxDim == 2
\* largest number of elements of an array
MaxElems == 2
\* largest layer index / input width handed to Dropout.compile
MaxLayerIdx == 1
MaxUnits == 2

(* --------------------------- exact arithmetic ------------------------- *)

Abs(n) == IF n < 0 THEN 0 - n ELSE n

RECURSIVE Gcd(_, _)
Gcd(a, b) == IF b = 0 THEN a ELSE Gcd(b, a % b)

\* the rational n/d (d # 0) in lowest terms with a positive denominator
Rat(n, d) ==
    LET g == Gcd(Abs(n), Abs(d))
        s == IF d < 0 THEN 0 - 1 ELSE 1
    IN  <<(s * n) \div g, (s * d) \div g>>

RatDiv(a, b) == Rat(a[1] * b[2], a[2] * b[1])
RatLess(a, b) == a[1] * b[2] < b[1] * a[2]
Zero == Rat(0, 1)
One == Rat(1, 1)
OneMinus(r) == Rat(r[2] - r[1], r[2])

(* ------------------------------- arrays ------------------------------- *)

RECURSIVE Prod(_)
Prod(s) == IF s = <<>> THEN 1 ELSE Head(s) * Prod(Tail(s))

\* the shapes of the arrays a caller hands to the layer
Shapes ==
    {s \in UNION {[1..r -> 1..MaxDim] : r \in 1..MaxRank} : Prod(s) <= MaxElems}

\* the 2-D (examples x units) shapes among them
MatrixShapes == {s \in Shapes : Len(s) = 2}

Indices(shape) ==
    {idx \in [1..Len(shape) -> 1..MaxDim] :
        \A i \in 1..Len(shape) : idx[i] <= shape[i]}

\* the element values a caller puts in an array
Vals == {Rat(0, 1), Rat(0 - 2, 1)}

Arrays(shapes, vals) ==
    UNION {{[shape |-> s, data |-> d] : d \in [Indices(s) -> vals]} : s \in shapes}

\* arrays of every shape, all elements 1: what the shape checks see
ShapeArrays == Arrays(Shapes, {One})

\* matrices with zero and non-zero elements: what the arithmetic sees
MatrixArrays == Arrays(MatrixShapes, Vals)

NoArray == [shape |-> <<>>, data |-> <<>>]

\* numpy broadcasting of two shapes: aligned at the trailing dimension, a
\* missing or size-1 dimension stretches
Max(a, b) == IF a < b THEN b ELSE a

Pad(s, r) == [i \in 1..r |-> IF i <= r - Len(s) THEN 1 ELSE s[i - (r - Len(s))]]

Broadcastable(s1, s2) ==
    LET r == Max(Len(s1), Len(s2))
    IN  \A i \in 1..r :
            \/ Pad(s1, r)[i] = Pad(s2, r)[i]
            \/ Pad(s1, r)[i] = 1
            \/ Pad(s2, r)[i] = 1

BroadcastShape(s1, s2) ==
    LET r == Max(Len(s1), Len(s2))
    IN  [i \in 1..r |-> Max(Pad(s1, r)[i], Pad(s2, r)[i])]

\* the element of arr that position idx of a broadcast result reads
Pick(arr, idx) ==
    LET k == Len(arr.shape)
        off == Len(idx) - k
    IN  arr.data[[i \in 1..k |-> IF arr.shape[i] = 1 THEN 1 ELSE idx[i + off]]]

(* ------------------------------- state -------------------------------- *)

\* a Dropout layer object driven directly by a caller
VARIABLES
    RATE,            \* Dropout._RATE, a rational strictly between 0 and 1
    units,           \* Dropout.units (NoneUnits until compiled)
    is_compiled,     \* Layer._is_compiled
    network_id,      \* Layer._network_id: <<>> or <<"Dropout", layer_idx>>
    dropout_filter,  \* Dropout._dropout_filter: absent or a boolean array
    last             \* the latest call on the layer and how it ended

dropoutVars == <<RATE, units, is_compiled, network_id, dropout_filter, last>>

\* a Model and the latest predict call on it
VARIABLES
    pc,         \* "new", or how the constructor ended: "built" / "failed"
    args,       \* model_layers, the layer objects handed to the constructor
    LAYERS,     \* Model._LAYERS
    ctor_err,   \* the error the constructor raised, "ok" when it returned
    pred        \* the latest predict call: its error and the calls it made

modelVars == <<pc, args, LAYERS, ctor_err, pred>>

\* a call of Model.fit in progress
VARIABLES
    fit_pc,             \* "idle", "epoch" (top of the epoch loop), "batch"
                        \* (top of the batch loop), "returned", "raised"
    fit_err,            \* the error fit raised
    n_examples,         \* examples.shape[0]
    requested,          \* the batch_size argument
    batch_size,         \* the local batch_size after the adjustment
    epochs,
    epoch,
    batch,
    shuffling_indices,  \* this epoch's permutation of 0..n_examples-1
    batches,            \* the batches this epoch has trained on, in order
    steps,              \* batch steps completed since fit was called
    training_history

fitVars ==
    <<fit_pc, fit_err, n_examples, requested, batch_size, epochs, epoch, batch,
      shuffling_indices, batches, steps, training_history>>

vars == <<dropoutVars, modelVars, fitVars>>

(* ------------------------- Dropout: the object ------------------------ *)

\* self.units = None
NoneUnits == 0

\* self._dropout_filter = None
NoFilter == [present |-> FALSE, shape |-> <<>>, data |-> <<>>]

NoCall ==
    [op |-> "none", err |-> "ok", layer_idx |-> 0, input_units |-> 0,
     arg |-> NoArray, training |-> FALSE, out |-> NoArray]

\* the rates a caller may hand to the constructor
CandidateRates == {Rat(0, 1), Rat(1, 4), Rat(1, 2), Rat(1, 1)}

\* Dropout.__init__ accepts a rate only when 0 < rate < 1
ValidRate(rate) == RatLess(Zero, rate) /\ RatLess(rate, One)

\* the flag a freshly constructed layer carries (set by the Layer base class)
LayerInitCompiled == FALSE

(* --- compile --- *)

CompileError(layer_idx, input_units) ==
    IF layer_idx < 1 THEN "ValueError"
    ELSE IF input_units < 1 THEN "ValueError"
    ELSE "ok"

Compile(layer_idx, input_units) ==
    LET err == CompileError(layer_idx, input_units)
    IN  /\ last' = [NoCall EXCEPT !.op = "compile", !.err = err,
                                  !.layer_idx = layer_idx,
                                  !.input_units = input_units]
        /\ IF err = "ok"
           THEN /\ units' = input_units
                /\ network_id' = <<"Dropout", layer_idx>>
                /\ is_compiled' = TRUE
           ELSE UNCHANGED <<units, network_id, is_compiled>>
        /\ UNCHANGED <<RATE, dropout_filter, modelVars, fitVars>>

(* --- forward --- *)

ForwardError(compiled, width, x) ==
    IF ~compiled THEN "AttributeError"
    ELSE IF x.shape[Len(x.shape)] # width THEN "ValueError"
    ELSE "ok"

\* np.where(dropout_filter, layer_inputs, 0) / (1 - rate)
ForwardOutput(x, mask, rate) ==
    [shape |-> x.shape,
     data  |-> [idx \in Indices(x.shape) |->
                  RatDiv(IF mask[idx] THEN x.data[idx] ELSE Zero, OneMinus(rate))]]

\* what forward caches when in_training
ForwardFilter(x, mask) == [present |-> TRUE, shape |-> x.shape, data |-> mask]

Forward(x, in_training, mask) ==
    LET err == ForwardError(is_compiled, units, x)
        out == IF err # "ok" THEN NoArray
               ELSE IF in_training THEN ForwardOutput(x, mask, RATE)
               ELSE x
    IN  /\ last' = [NoCall EXCEPT !.op = "forward", !.err = err, !.arg = x,
                                  !.training = in_training, !.out = out]
        /\ dropout_filter' = IF err = "ok" /\ in_training
                             THEN ForwardFilter(x, mask)
                             ELSE dropout_filter
        /\ UNCHANGED <<RATE, units, is_compiled, network_id, modelVars, fitVars>>

(* --- backward --- *)

BackwardError(compiled, width, filter, g) ==
    IF ~compiled THEN "AttributeError"
    ELSE IF Len(g.shape) < 2 THEN "IndexError"
    ELSE IF g.shape[2] # width THEN "ValueError"
    ELSE IF filter.present /\ ~Broadcastable(filter.shape, g.shape) THEN "ValueError"
    ELSE "ok"

\* a backward that rescales the gradients and forgets to apply the filter
BackwardGradsUnfiltered(filter, g, rate) ==
    [shape |-> g.shape,
     data  |-> [idx \in Indices(g.shape) |-> RatDiv(g.data[idx], OneMinus(rate))]]

\* np.where(self._dropout_filter, output_grads / (1 - rate), 0)
BackwardGrads(filter, g, rate) ==
    IF ~filter.present
    THEN [shape |-> g.shape, data |-> [idx \in Indices(g.shape) |-> Zero]]
    ELSE LET s == BroadcastShape(filter.shape, g.shape)
         IN  [shape |-> s,
              data  |-> [idx \in Indices(s) |->
                           IF Pick(filter, idx)
                           THEN RatDiv(Pick(g, idx), OneMinus(rate))
                           ELSE Zero]]

Backward(g) ==
    LET err == BackwardError(is_compiled, units, dropout_filter, g)
        out == IF err # "ok" THEN NoArray ELSE BackwardGrads(dropout_filter, g, RATE)
    IN  /\ last' = [NoCall EXCEPT !.op = "backward", !.err = err, !.arg = g,
                                  !.out = out]
        /\ UNCHANGED <<RATE, units, is_compiled, network_id, dropout_filter,
                       modelVars, fitVars>>

CallCompile ==
    \E layer_idx \in 0..MaxLayerIdx, input_units \in 0..MaxUnits :
        Compile(layer_idx, input_units)

AllTrue(shape) == [idx \in Indices(shape) |-> TRUE]

\* a call of forward; the random draws matter only when the filter is built
CallForward(arrays) ==
    \E x \in arrays, in_training \in BOOLEAN :
        \E mask \in [Indices(x.shape) -> BOOLEAN] :
            /\ (~in_training \/ ForwardError(is_compiled, units, x) # "ok")
                    => mask = AllTrue(x.shape)
            /\ Forward(x, in_training, mask)

CallBackward(arrays) == \E g \in arrays : Backward(g)

\* the layer driven with arrays of every rank
ShapeNext ==
    \/ CallCompile
    \/ CallForward(ShapeArrays)
    \/ CallBackward(ShapeArrays)

\* the layer driven with matrices of varying content
MatrixNext ==
    \/ CallCompile
    \/ CallForward(MatrixArrays)
    \/ CallBackward(MatrixArrays)

(* ---------------------- Dropout: checked properties ------------------ *)

Trailing(shape) == shape[Len(shape)]

NonZero(arr) == \A idx \in Indices(arr.shape) : arr.data[idx] # Zero

TrainedForward(call) == call.op = "forward" /\ call.err = "ok" /\ call.training

C7_Step ==
    (/\ TrainedForward(last)
     /\ last'.op = "backward"
     /\ Len(last.arg.shape) = 2
     /\ last'.arg.shape = last.arg.shape)
    => /\ last'.err = "ok"
       /\ last'.out.shape = last.arg.shape
       /\ \A idx \in Indices(last.arg.shape) :
            IF dropout_filter.data[idx]
            THEN /\ last.out.data[idx] = RatDiv(last.arg.data[idx], OneMinus(RATE))
                 /\ last'.out.data[idx] = RatDiv(last'.arg.data[idx], OneMinus(RATE))
            ELSE /\ last.out.data[idx] = Zero
                 /\ last'.out.data[idx] = Zero
       /\ (NonZero(last.arg) /\ NonZero(last'.arg))
            => \A idx \in Indices(last.arg.shape) :
                  (last.out.data[idx] = Zero) <=> (last'.out.data[idx] = Zero)

\* C7: a training-mode forward(x) directly followed by backward(g), g of x's
\* 2-D shape: where the forward filter is false the output and the input
\* gradient are 0, where it is true they are x/(1-rate) and g/(1-rate); for
\* all-nonzero x and g the two results have the same zero pattern.
C7_MaskConsistency == [][C7_Step]_vars

\* a backward that used a filter with kept and dropped positions on
\* all-nonzero gradients of the filter's 2-D shape
C7_Witness ==
    /\ last.op = "backward" /\ last.err = "ok"
    /\ dropout_filter.present
    /\ Len(last.arg.shape) = 2
    /\ dropout_filter.shape = last.arg.shape
    /\ NonZero(last.arg)
    /\ \E i, j \in Indices(last.arg.shape) :
          dropout_filter.data[i] /\ ~dropout_filter.data[j]

InferenceStep ==
    (last'.op = "forward" /\ last'.err = "ok" /\ ~last'.training)
    => (last'.out = last'.arg /\ dropout_filter' = dropout_filter)

\* an inference-mode forward returns its input and leaves the filter alone
InferenceForwardIsIdentity == [][InferenceStep]_vars

\* C8: backward returns a gradient only when a filter is cached whose shape
\* is exactly the shape of the gradients; otherwise it fails.
C8_BackwardNeedsMatchingFilter ==
    (last.op = "backward" /\ last.err = "ok")
    => (dropout_filter.present /\ dropout_filter.shape = last.arg.shape)

\* the ways a shape check can fail: the mismatch error it raises, or the index
\* error of reading a dimension the array does not have
ShapeFailures == {"ValueError", "IndexError"}

C9_Step ==
    /\ (last'.op \in {"forward", "backward"} /\ ~is_compiled)
         => /\ last'.err = "AttributeError"
            /\ units' = units
            /\ dropout_filter' = dropout_filter
    /\ (last'.op = "compile" /\ (last'.layer_idx < 1 \/ last'.input_units < 1))
         => /\ last'.err = "ValueError"
            /\ is_compiled' = is_compiled
    /\ (last'.op = "compile" /\ last'.layer_idx >= 1 /\ last'.input_units >= 1)
         => /\ last'.err = "ok"
            /\ is_compiled'
            /\ units' = last'.input_units
    /\ (/\ last'.op \in {"forward", "backward"}
        /\ is_compiled
        /\ Trailing(last'.arg.shape) # units)
         => last'.err \in ShapeFailures

\* C9: forward and backward before a successful compile fail as not-ready and
\* leave units and the filter alone; a compile with position < 1 or width < 1
\* fails and does not set the compiled flag; after a successful compile units
\* is the width given and forward/backward of an array whose trailing
\* dimension differs from units fail with the shape-mismatch error.
C9_Lifecycle == [][C9_Step]_vars

(* ------------------------------ the Model ----------------------------- *)

\* longest layer list handed to the Model constructor
MaxLayers == 3

\* the layer objects a caller can construct: an input layer or a dense layer
\* of some width, a Dropout (units None until compiled), or something that
\* is not a layer at all
LayerObjects ==
    {[kind |-> k, UNITS |-> u, compiled |-> FALSE, input_units |-> 0] :
        k \in {"InputLayer", "Dense"}, u \in 1..MaxUnits}
    \cup {[kind |-> "Dropout", UNITS |-> NoneUnits, compiled |-> FALSE,
           input_units |-> 0]}
    \cup {[kind |-> "NotALayer", UNITS |-> NoneUnits, compiled |-> FALSE,
           input_units |-> 0]}

LayerLists == UNION {[1..k -> LayerObjects] : k \in 0..MaxLayers}

\* layers.verify_layer
VerifyLayer(layer) == layer.kind # "NotALayer"

\* isinstance(layer, InputLayer)
IsInputLayer(layer) == layer.kind = "InputLayer"

\* Layer.IS_TRAINABLE: Dropout passes False to the base class
IsTrainable(layer) == layer.kind = "Dense"

\* the number of arguments each Dropout method requires
DropoutArity(method) ==
    CASE method = "compile"  -> 2
      [] method = "forward"  -> 2
      [] method = "backward" -> 1

\* the number of arguments the Model passes to each layer method
ModelArity(method) ==
    CASE method = "compile"  -> 1
      [] method = "forward"  -> 1
      [] method = "backward" -> 1
      [] method = "update"   -> 1

\* how a call the Model makes on a Dropout ends: a call with the wrong
\* number of arguments is rejected before the body runs, the body then
\* checks the compiled flag; the class defines no update
DropoutCallOutcome(layer, method) ==
    IF method = "update" THEN "AttributeError"
    ELSE IF ModelArity(method) # DropoutArity(method) THEN "TypeError"
    ELSE IF ~layer.compiled THEN "AttributeError"
    ELSE "ok"

\* the input and dense layers take the calls the Model makes
OtherCallOutcome(layer, method) == "ok"

\* how a call the Model makes on one of its layers ends
CallOutcome(layer, method) ==
    IF layer.kind = "Dropout"
    THEN DropoutCallOutcome(layer, method)
    ELSE OtherCallOutcome(layer, method)

\* reading model_layers[layer_idx - 1].UNITS: a Dropout has `units` only
ReadUNITS(layer) ==
    IF layer.kind = "Dropout" THEN [err |-> "AttributeError", value |-> NoneUnits]
    ELSE [err |-> "ok", value |-> layer.UNITS]

\* the type and position checks of the constructor, layer by layer
RECURSIVE CheckLayers(_, _)
CheckLayers(list, i) ==
    IF i > Len(list) THEN "ok"
    ELSE IF ~VerifyLayer(list[i]) THEN "TypeError"
    ELSE IF i # 1 /\ IsInputLayer(list[i]) THEN "ValueError"
    ELSE IF i = 1 /\ ~IsInputLayer(list[i]) THEN "ValueError"
    ELSE CheckLayers(list, i + 1)

\* the effect of a successful compile on a layer other than Dropout
Compiled(layer, width) == [layer EXCEPT !.compiled = TRUE, !.input_units = width]

\* the loop that connects the layers, from position i on
RECURSIVE ConnectLayers(_, _)
ConnectLayers(list, i) ==
    IF i > Len(list) THEN [err |-> "ok", layers |-> list]
    ELSE LET width == ReadUNITS(list[i - 1])
             out == CallOutcome(list[i], "compile")
         IN  IF width.err # "ok" THEN [err |-> width.err, layers |-> list]
             ELSE IF out # "ok" THEN [err |-> out, layers |-> list]
             ELSE ConnectLayers([list EXCEPT ![i] = Compiled(list[i], width.value)],
                                i + 1)

NoPredict == [done |-> FALSE, err |-> "ok", calls |-> <<>>]

\* Model.__init__
Construct(model_layers) ==
    /\ pc = "new"
    /\ LET checked == CheckLayers(model_layers, 1)
           wired == ConnectLayers(model_layers, 2)
       IN  IF checked # "ok"
           THEN /\ ctor_err' = checked
                /\ args' = model_layers
                /\ LAYERS' = <<>>
                /\ pc' = "failed"
           ELSE /\ ctor_err' = wired.err
                /\ args' = wired.layers
                /\ LAYERS' = wired.layers
                /\ pc' = IF wired.err = "ok" THEN "built" ELSE "failed"
    /\ pred' = NoPredict
    /\ UNCHANGED <<dropoutVars, fitVars>>

\* the forward calls of predict from layer i on; calls made so far in `calls`
RECURSIVE ForwardAll(_, _, _)
ForwardAll(layers, i, calls) ==
    IF i > Len(layers) THEN [err |-> "ok", calls |-> calls]
    ELSE LET call == [op |-> "forward", layer |-> i, in_training |-> "absent"]
             out == CallOutcome(layers[i], "forward")
         IN  IF out # "ok" THEN [err |-> out, calls |-> Append(calls, call)]
             ELSE ForwardAll(layers, i + 1, Append(calls, call))

\* Model.predict
Predict ==
    /\ pc = "built"
    /\ LET run == ForwardAll(LAYERS, 1, <<>>)
       IN  pred' = [done |-> TRUE, err |-> run.err, calls |-> run.calls]
    /\ UNCHANGED <<pc, args, LAYERS, ctor_err, dropoutVars, fitVars>>

ConstructAny == \E model_layers \in LayerLists : Construct(model_layers)

(* ------------------------------ Model.fit ----------------------------- *)

\* largest data set, requested batch size and epoch count handed to fit
MaxExamples == 5
MaxBatch == 3
MaxEpochs == 2
\* longest layer list of a Model that fit is run on
MaxFitLayers == 2

\* the training set: example i carries the feature row i and the label -i
Examples(n) == [i \in 1..n |-> i]
Labels(n) == [i \in 1..n |-> 0 - i]

\* array[indices] for a sequence of 0-based row numbers
TakeRows(array, indices) == [k \in 1..Len(indices) |-> array[indices[k] + 1]]

Min(a, b) == IF a < b THEN a ELSE b

\* array[lower: upper]
Slice(array, lower, upper) == SubSeq(array, lower + 1, Min(upper, Len(array)))

\* generator.permutation(n)
Shuffles(n) ==
    {p \in [1..n -> 0..(n - 1)] : \A i, j \in 1..n : p[i] = p[j] => i = j}

\* an adjustment that takes the whole set only when the requested size
\* exceeds all of it
AdjustBatchSizeAboveAll(n, size) ==
    IF RatLess(Rat(n, 1), Rat(size, 1)) THEN n ELSE size

\* the batch size fit works with: the whole set when the requested size
\* exceeds half of it
AdjustBatchSize(n, size) ==
    IF RatLess(Rat(n, 2), Rat(size, 1)) THEN n ELSE size

\* the argument checks of fit
FitArgError(size, n_epochs) ==
    IF size < 1 THEN "ValueError"
    ELSE IF n_epochs < 1 THEN "ValueError"
    ELSE "ok"

\* np.empty(epochs): nothing written yet
Unwritten == [written |-> FALSE, examples |-> <<>>, labels |-> <<>>,
              steps |-> 0, in_training |-> "absent"]

\* the backward calls from layer i down to the first layer
RECURSIVE BackwardAll(_, _, _)
BackwardAll(layers, i, calls) ==
    IF i < 1 THEN [err |-> "ok", calls |-> calls]
    ELSE LET call == [op |-> "backward", layer |-> i, in_training |-> "absent"]
             out == CallOutcome(layers[i], "backward")
         IN  IF out # "ok" THEN [err |-> out, calls |-> Append(calls, call)]
             ELSE BackwardAll(layers, i - 1, Append(calls, call))

\* the update calls from layer i on
RECURSIVE UpdateAll(_, _, _)
UpdateAll(layers, i, calls) ==
    IF i > Len(layers) THEN [err |-> "ok", calls |-> calls]
    ELSE IF ~IsTrainable(layers[i]) THEN UpdateAll(layers, i + 1, calls)
    ELSE LET call == [op |-> "update", layer |-> i, in_training |-> "absent"]
             out == CallOutcome(layers[i], "update")
         IN  IF out # "ok" THEN [err |-> out, calls |-> Append(calls, call)]
             ELSE UpdateAll(layers, i + 1, Append(calls, call))

GradateCall == [op |-> "gradate", layer |-> 0, in_training |-> "absent"]

\* one step of batch descent: the calls it makes, in order, and how it ends
TrainStep(layers) ==
    LET fwd == ForwardAll(layers, 1, <<>>)
        bwd == BackwardAll(layers, Len(layers), Append(fwd.calls, GradateCall))
        upd == UpdateAll(layers, 1, bwd.calls)
    IN  IF fwd.err # "ok" THEN fwd
        ELSE IF bwd.err # "ok" THEN bwd
        ELSE upd

\* the call of fit up to the epoch loop
FitCall(n, size, n_epochs) ==
    /\ pc = "built"
    /\ fit_pc \in {"idle", "returned", "raised"}
    /\ LET err == FitArgError(size, n_epochs)
       IN  /\ fit_err' = err
           /\ fit_pc' = IF err = "ok" THEN "epoch" ELSE "raised"
           /\ training_history' =
                IF err = "ok" THEN [e \in 1..n_epochs |-> Unwritten] ELSE <<>>
           /\ batch_size' = IF err = "ok" THEN AdjustBatchSize(n, size) ELSE size
    /\ n_examples' = n
    /\ requested' = size
    /\ epochs' = n_epochs
    /\ epoch' = 0
    /\ batch' = 0
    /\ shuffling_indices' = <<>>
    /\ batches' = <<>>
    /\ steps' = 0
    /\ UNCHANGED <<dropoutVars, modelVars>>

\* the top of the epoch loop: shuffle, then enter the batch loop
EpochStart ==
    /\ fit_pc = "epoch"
    /\ epoch < epochs
    /\ \E p \in Shuffles(n_examples) : shuffling_indices' = p
    /\ batches' = <<>>
    /\ batch' = 0
    /\ IF batch_size = 0
       THEN fit_pc' = "raised" /\ fit_err' = "ZeroDivisionError"
       ELSE fit_pc' = "batch" /\ fit_err' = fit_err
    /\ UNCHANGED <<n_examples, requested, batch_size, epochs, epoch, steps,
                   training_history, dropoutVars, modelVars>>

\* batches whose labels are cut from the unshuffled labels
BatchOfUnshuffledLabels(n, size, indices, k) ==
    [lower    |-> size * k,
     upper    |-> size * (k + 1),
     examples |-> Slice(TakeRows(Examples(n), indices), size * k, size * (k + 1)),
     labels   |-> Slice(Labels(n), size * k, size * (k + 1)),
     calls    |-> <<>>]

\* the rows one batch trains on
BatchOf(n, size, indices, k) ==
    [lower    |-> size * k,
     upper    |-> size * (k + 1),
     examples |-> Slice(TakeRows(Examples(n), indices), size * k, size * (k + 1)),
     labels   |-> Slice(TakeRows(Labels(n), indices), size * k, size * (k + 1)),
     calls    |-> <<>>]

\* one pass of the batch loop
BatchStep ==
    /\ fit_pc = "batch"
    /\ batch < n_examples \div batch_size
    /\ LET run == TrainStep(LAYERS)
           rows == BatchOf(n_examples, batch_size, shuffling_indices, batch)
       IN  /\ batches' = Append(batches, [rows EXCEPT !.calls = run.calls])
           /\ IF run.err = "ok"
              THEN /\ batch' = batch + 1
                   /\ steps' = steps + 1
                   /\ UNCHANGED <<fit_pc, fit_err>>
              ELSE /\ fit_pc' = "raised"
                   /\ fit_err' = run.err
                   /\ UNCHANGED <<batch, steps>>
    /\ UNCHANGED <<n_examples, requested, batch_size, epochs, epoch,
                   shuffling_indices, training_history, dropoutVars, modelVars>>

\* an epoch metric that reuses the last batch instead of the training set
EpochLossOfLastBatch(n, calls, done) ==
    [written |-> TRUE,
     examples |-> IF batches = <<>> THEN <<>> ELSE batches[Len(batches)].examples,
     labels |-> IF batches = <<>> THEN <<>> ELSE batches[Len(batches)].labels,
     steps |-> done,
     in_training |-> "absent"]

\* the loss the epoch records: calculate(predict(examples), labels)
EpochLoss(n, calls, done) ==
    [written |-> TRUE, examples |-> Examples(n), labels |-> Labels(n),
     steps |-> done,
     in_training |-> IF \E c \in 1..Len(calls) : calls[c].in_training = "true"
                     THEN "true" ELSE "absent"]

\* after the batch loop: record the loss over the whole training set.  The
\* permutation and the batches of the epoch are not read again.
EpochEnd ==
    /\ fit_pc = "batch"
    /\ batch >= n_examples \div batch_size
    /\ LET run == ForwardAll(LAYERS, 1, <<>>)
       IN  IF run.err = "ok"
           THEN /\ training_history' =
                     [training_history EXCEPT
                        ![epoch + 1] = EpochLoss(n_examples, run.calls, steps)]
                /\ epoch' = epoch + 1
                /\ fit_pc' = "epoch"
                /\ UNCHANGED fit_err
           ELSE /\ fit_pc' = "raised"
                /\ fit_err' = run.err
                /\ UNCHANGED <<training_history, epoch>>
    /\ shuffling_indices' = <<>>
    /\ batches' = <<>>
    /\ UNCHANGED <<n_examples, requested, batch_size, epochs, batch, steps,
                   dropoutVars, modelVars>>

\* return training_history
FitReturn ==
    /\ fit_pc = "epoch"
    /\ epoch >= epochs
    /\ fit_pc' = "returned"
    /\ UNCHANGED <<fit_err, n_examples, requested, batch_size, epochs, epoch,
                   batch, shuffling_indices, batches, steps, training_history,
                   dropoutVars, modelVars>>

(* ----------------------- Model: checked properties -------------------- *)

\* an input layer first, then layers that are not input layers
WellFormed(list) ==
    /\ Len(list) >= 1
    /\ list[1].kind = "InputLayer"
    /\ \A i \in 2..Len(list) : list[i].kind \in {"Dense", "Dropout"}

AllLayers(list) == \A i \in 1..Len(list) : list[i].kind # "NotALayer"

HasDropout(list) == \E i \in 1..Len(list) : list[i].kind = "Dropout"

\* the width a layer produces: its own for an input or dense layer, the
\* width it was compiled with for a Dropout
OutputWidth(layer) ==
    IF layer.kind = "Dropout" THEN layer.input_units ELSE layer.UNITS

\* C1: the constructor, given an input layer followed by ordinary layers,
\* returns normally, and then every non-first layer is compiled with the
\* output width of the layer before it.
C1_ConstructionWiring ==
    (pc # "new" /\ WellFormed(args))
    => /\ pc = "built"
       /\ \A i \in 2..Len(LAYERS) :
            /\ LAYERS[i].compiled
            /\ LAYERS[i].input_units = OutputWidth(LAYERS[i - 1])

\* C2: a Model that was constructed holds exactly one input layer, at
\* position 0; every other list of layers (the empty list included) makes the
\* constructor fail with the value error.
C2_StructuralInvariant ==
    (pc # "new" /\ AllLayers(args))
    => /\ pc = "built" => WellFormed(LAYERS)
       /\ ~WellFormed(args) => (pc = "failed" /\ ctor_err = "ValueError")

\* C3: a Model built from a well-formed list containing Dropout layers
\* exists, and predict on it calls every layer's forward in order, without a
\* training signal, and completes.
C3_PredictThroughDropout ==
    /\ (pc # "new" /\ WellFormed(args) /\ HasDropout(args)) => pc = "built"
    /\ (pred.done /\ HasDropout(LAYERS))
         => /\ pred.err = "ok"
            /\ pred.calls = [i \in 1..Len(LAYERS) |->
                               [op |-> "forward", layer |-> i,
                                in_training |-> "absent"]]

(* ------------------------ fit: checked properties --------------------- *)

\* fit took its arguments
Accepted == fit_pc # "idle" /\ requested >= 1 /\ epochs >= 1

\* between two epochs, or after the last
BetweenEpochs == fit_pc \in {"epoch", "returned"}

TrainableLayers == {i \in 1..Len(LAYERS) : LAYERS[i].kind = "Dense"}

RECURSIVE Ascending(_, _)
\* the members of set s at or above i, in ascending order (s within 1..top)
Ascending(s, i) ==
    IF s = {} THEN <<>>
    ELSE IF i \in s THEN <<i>> \o Ascending(s \ {i}, i + 1)
    ELSE Ascending(s, i + 1)

\* the calls of one training step as the claim orders them
StepCalls(mode) ==
    LET k == Len(LAYERS)
    IN  [i \in 1..k |-> [op |-> "forward", layer |-> i, in_training |-> mode]]
        \o <<[op |-> "gradate", layer |-> 0, in_training |-> "absent"]>>
        \o [i \in 1..k |->
              [op |-> "backward", layer |-> k + 1 - i, in_training |-> "absent"]]
        \o [i \in 1..Cardinality(TrainableLayers) |->
              [op |-> "update", layer |-> Ascending(TrainableLayers, 1)[i],
               in_training |-> "absent"]]

CompletedBatches == IF fit_pc = "raised" THEN batch ELSE Len(batches)

\* C4: every batch runs forward on every layer in list order in training
\* mode, then gradate once, then backward on every layer in reverse order,
\* then update once on each trainable layer and on no other.
C4_TrainingStepOrder ==
    Accepted => \A k \in 1..CompletedBatches : batches[k].calls = StepCalls("true")

\* the same order of calls, the forward calls carrying no training signal
FitStepOrderWithoutSignal ==
    Accepted => \A k \in 1..CompletedBatches : batches[k].calls = StepCalls("absent")

\* the example at 1-based position p of this epoch's shuffled order
ShuffledExample(p) == shuffling_indices[p] + 1

\* C5: the batch size is the whole set when the requested size exceeds half
\* of it and the requested size otherwise; an epoch runs n // b batches,
\* batch k covering positions [k*b, (k+1)*b) of the shuffled order, and the
\* trailing n mod b positions are in no batch.
C5_BatchSizing ==
    (Accepted /\ n_examples >= 1)
    => /\ batch_size = IF 2 * requested > n_examples THEN n_examples ELSE requested
       /\ BetweenEpochs => steps = epoch * (n_examples \div batch_size)
       /\ fit_pc = "batch" =>
            /\ Len(batches) <= n_examples \div batch_size
            /\ steps = epoch * (n_examples \div batch_size) + Len(batches)
       /\ \A k \in 1..Len(batches) :
            /\ batches[k].lower = (k - 1) * batch_size
            /\ batches[k].upper = k * batch_size
            /\ batches[k].examples =
                  [j \in 1..batch_size |-> ShuffledExample((k - 1) * batch_size + j)]
       /\ \A p \in (n_examples - (n_examples % batch_size) + 1)..n_examples :
            \A k \in 1..Len(batches) : \A j \in 1..Len(batches[k].examples) :
                batches[k].examples[j] # ShuffledExample(p)

\* the batch loop of an epoch has run several batches of the requested size
\* and is over with a remainder left out
C5_Witness ==
    /\ Accepted /\ fit_pc = "batch"
    /\ requested = batch_size
    /\ Len(batches) >= 2
    /\ Len(batches) = n_examples \div batch_size
    /\ n_examples % batch_size # 0

\* C6: fit returns one entry per epoch; entry e is the loss of a predict
\* without training signal over the whole unshuffled training set, taken when
\* exactly the batches of epochs 1..e had been applied; no entry is written
\* before its epoch's batches are done.
C6_TrainingHistory ==
    Accepted
    => /\ fit_pc = "returned" =>
            /\ Len(training_history) = epochs
            /\ \A e \in 1..epochs : training_history[e].written
       /\ \A e \in 1..Len(training_history) :
            /\ training_history[e].written => e <= epoch
            /\ training_history[e].written =>
                 /\ training_history[e].examples = [i \in 1..n_examples |-> i]
                 /\ training_history[e].labels = [i \in 1..n_examples |-> 0 - i]
                 /\ training_history[e].in_training # "true"
                 /\ training_history[e].steps = e * (n_examples \div batch_size)

\* a fit of several epochs of several batches each has returned
C6_Witness ==
    /\ fit_pc = "returned"
    /\ epochs >= 2
    /\ n_examples \div batch_size >= 2
    /\ Len(LAYERS) >= 2

UpdatedIn(k, i) ==
    \E c \in 1..Len(batches[k].calls) :
        batches[k].calls[c].op = "update" /\ batches[k].calls[c].layer = i

\* C10: for n >= 1 the batch size b is within 1..n, every epoch runs at least
\* one batch and so updates every trainable layer, every batch holds b
\* examples each with its own label, no example is in two batches of an
\* epoch, fit does not stop before it returns and returns after
\* epochs * (n // b) batch steps; for n = 0 the batch size is 0 and the batch
\* count is a division by zero.
C10_FitProgress ==
    /\ (Accepted /\ n_examples >= 1)
       => /\ 1 <= batch_size /\ batch_size <= n_examples
          /\ BetweenEpochs => steps >= epoch
          /\ (fit_pc = "batch" /\ ~ENABLED BatchStep) => Len(batches) >= 1
          /\ \A k \in 1..Len(batches) :
               /\ \A i \in TrainableLayers : UpdatedIn(k, i)
               /\ Len(batches[k].examples) = batch_size
               /\ Len(batches[k].labels) = batch_size
               /\ \A j \in 1..batch_size :
                    batches[k].labels[j] = 0 - batches[k].examples[j]
               /\ \A k2 \in 1..Len(batches) : \A j, j2 \in 1..batch_size :
                    batches[k].examples[j] = batches[k2].examples[j2]
                        => (k = k2 /\ j = j2)
          /\ fit_pc # "raised"
          /\ steps <= epochs * (n_examples \div batch_size)
          /\ fit_pc \in {"epoch", "batch"}
               => ENABLED (EpochStart \/ BatchStep \/ EpochEnd \/ FitReturn)
          /\ fit_pc = "returned" => steps = epochs * (n_examples \div batch_size)
    /\ (Accepted /\ n_examples = 0)
       => /\ batch_size = 0
          /\ steps = 0
          /\ fit_pc \in {"epoch", "raised"}
          /\ fit_pc = "raised" => fit_err = "ZeroDivisionError"

\* a fit on a Model with a trainable layer has returned after several
\* batches in each of several epochs
C10_Witness ==
    /\ fit_pc = "returned"
    /\ TrainableLayers # {}
    /\ epochs >= 2
    /\ steps >= 4
    /\ batch_size < n_examples

(* --------------------------- specifications --------------------------- *)

\* the layer lists of the Models fit is run on: every layer of width 1
FitLayerLists ==
    {l \in UNION {[1..k -> LayerObjects] : k \in 0..MaxFitLayers} :
        \A i \in 1..Len(l) : l[i].UNITS <= 1}

ConstructForFit == \E model_layers \in FitLayerLists : Construct(model_layers)

CallFit ==
    \E n \in 0..MaxExamples, size \in 0..MaxBatch, n_epochs \in 0..MaxEpochs :
        FitCall(n, size, n_epochs)

\* a freshly constructed Dropout; no Model yet
DropoutInit ==
    /\ RATE \in {r \in CandidateRates : ValidRate(r)}
    /\ units = NoneUnits
    /\ is_compiled = LayerInitCompiled
    /\ network_id = <<>>
    /\ dropout_filter = NoFilter
    /\ last = NoCall
    /\ pc = "new"
    /\ args = <<>>
    /\ LAYERS = <<>>
    /\ ctor_err = "ok"
    /\ pred = NoPredict
    /\ fit_pc = "idle"
    /\ fit_err = "ok"
    /\ n_examples = 0
    /\ requested = 0
    /\ batch_size = 0
    /\ epochs = 0
    /\ epoch = 0
    /\ batch = 0
    /\ shuffling_indices = <<>>
    /\ batches = <<>>
    /\ steps = 0
    /\ training_history = <<>>

\* no standalone Dropout object, no Model yet, no fit running
ModelInit ==
    /\ RATE = Zero
    /\ units = NoneUnits
    /\ is_compiled = LayerInitCompiled
    /\ network_id = <<>>
    /\ dropout_filter = NoFilter
    /\ last = NoCall
    /\ pc = "new"
    /\ args = <<>>
    /\ LAYERS = <<>>
    /\ ctor_err = "ok"
    /\ pred = NoPredict
    /\ fit_pc = "idle"
    /\ fit_err = "ok"
    /\ n_examples = 0
    /\ requested = 0
    /\ batch_size = 0
    /\ epochs = 0
    /\ epoch = 0
    /\ batch = 0
    /\ shuffling_indices = <<>>
    /\ batches = <<>>
    /\ steps = 0
    /\ training_history = <<>>

DropoutShapeSpec == DropoutInit /\ [][ShapeNext]_vars

DropoutMatrixSpec == DropoutInit /\ [][MatrixNext]_vars

ModelNext ==
    \/ ConstructAny
    \/ Predict

ModelSpec == ModelInit /\ [][ModelNext]_vars

FitNext ==
    \/ ConstructForFit
    \/ CallFit
    \/ EpochStart
    \/ BatchStep
    \/ EpochEnd
    \/ FitReturn

FitSpec == ModelInit /\ [][FitNext]_vars

====
